---- MODULE Spec2Model ----
(***************************************************************************)
(* hive_mind: Cortex<T, L>, a typed System V shared-memory segment guarded *)
(* by a pluggable lock L : CortexSync (src/src/lib.rs).                    *)
(*                                                                         *)
(* The model has three layers.                                             *)
(*   - The operating system: System V segments (shmget, shmat, shmdt,      *)
(*     shmctl IPC_RMID) as the calls of lib.rs use them.                   *)
(*   - The lock backend behind the CortexSync trait.  Its implementation   *)
(*     (mod semaphore) is not part of the sources at hand; it is modelled  *)
(*     from the lock contract of the specification.                        *)
(*   - Cortex itself: new, attach, read, write, force_ownership, Drop,     *)
(*     one action per system call they make, executed by NumHandles        *)
(*     concurrent callers, any of which may die at any point.              *)
(*                                                                         *)
(* A value of type T is a pair of fields; a write stores it field by       *)
(* field, so that a torn value is a pair whose two fields differ.          *)
(*                                                                         *)
(* Every system call and lock call can fail.  A failure that the state of  *)
(* the system does not explain (out of memory, no permission) is a fault;  *)
(* so is the death of a caller.  A run has at most MaxFaults faults.       *)
(***************************************************************************)
EXTENDS Integers, FiniteSets, Sequences, TLC

\* ---------------------------------------------------------------- bounds
NumHandles == 2
NumKeys    == 2
NumNamed   == 1
MaxSegs    == 2
MaxLocks   == 2
MaxValue   == 2
MaxFaults  == 1

\* ------------------------------------------------------ program constants
MaxRetries == 20
NoKey  == 0
NoId   == 0
NoLock == 0
Zero   == 0

Handles == 1..NumHandles
\* Keys are the keys rand() can return; Named are the keys a caller passes by
\* name, to new as init_key and to attach.
Keys    == 1..NumKeys
Named   == 1..NumNamed
SegIds  == 1..MaxSegs
LockIds == 1..MaxLocks
Vals    == 1..MaxValue

\* The value v of type T as it lies in memory: two fields.
Full(v) == <<v, v>>

VARIABLES
  segs,      \* the system's shared-memory segments, by id
  locks,     \* the lock instances of the backend, by instance
  cx,        \* per caller: its Cortex handle and the locals of the call it runs
  latest,    \* history: per segment, the value of the last completed write
  faults     \* the steps that met a fault so far, deaths included

vars == <<segs, locks, cx, latest, faults>>

\* ------------------------------------------------------- operating system
\* A segment id that was never allocated, and one the system has reclaimed.
Unused == [st |-> "unused", key |-> NoKey, nattch |-> 0, mem |-> Full(Zero)]
Gone   == [st |-> "gone",   key |-> NoKey, nattch |-> 0, mem |-> Full(Zero)]

\* The segment a key names.  IPC_RMID takes the name away at once (a marked
\* segment keeps the key it was created under, which names it no more); the
\* memory lives on until the last detach.
SegOfKey(sg, k) == {s \in SegIds : sg[s].st = "live" /\ sg[s].key = k}

Exists(sg, s) == s # NoId /\ sg[s].st \in {"live", "marked"}

\* The id the system gives the next segment.
NextId(sg) == {s \in SegIds : sg[s].st = "unused"
                              /\ \A u \in SegIds : sg[u].st = "unused" => s <= u}

\* shmget(key, size, IPC_CREAT | IPC_EXCL | 0o666): the outcomes.
shmget_excl(sg, k) ==
  IF SegOfKey(sg, k) # {}
  THEN {[id |-> NoId, errno |-> "EEXIST", fault |-> FALSE, segs |-> sg]}
  ELSE IF NextId(sg) = {}
  THEN {[id |-> NoId, errno |-> "ENOSPC", fault |-> FALSE, segs |-> sg]}
  ELSE {[id |-> NoId, errno |-> "ENOMEM", fault |-> TRUE, segs |-> sg]}
       \cup { [id |-> s, errno |-> "none", fault |-> FALSE,
               segs |-> [sg EXCEPT ![s] = [st |-> "live", key |-> k,
                                           nattch |-> 0, mem |-> Full(Zero)]]]
              : s \in NextId(sg) }

\* A variant of shmget_lookup, for C18: the flags carry IPC_CREAT, and a key
\* that names no segment gets one.
shmget_lookup_creating(sg, k) ==
  IF SegOfKey(sg, k) # {}
  THEN {[id |-> s, fault |-> FALSE, segs |-> sg] : s \in SegOfKey(sg, k)}
  ELSE IF NextId(sg) = {}
  THEN {[id |-> NoId, fault |-> FALSE, segs |-> sg]}
  ELSE { [id |-> s, fault |-> FALSE,
          segs |-> [sg EXCEPT ![s] = [st |-> "live", key |-> k,
                                      nattch |-> 0, mem |-> Full(Zero)]]]
         : s \in NextId(sg) }

\* shmget(key, 0, 0o666): look the key up, never create.
shmget_lookup(sg, k) ==
  IF SegOfKey(sg, k) = {}
  THEN {[id |-> NoId, fault |-> FALSE, segs |-> sg]}
  ELSE {[id |-> s, fault |-> FALSE, segs |-> sg] : s \in SegOfKey(sg, k)}

\* shmat(id, null, 0): map the segment, or fail.
shmat(sg, s) ==
  IF Exists(sg, s)
  THEN {[ok |-> TRUE, fault |-> FALSE, segs |-> [sg EXCEPT ![s].nattch = @ + 1]],
        [ok |-> FALSE, fault |-> TRUE, segs |-> sg]}
  ELSE {[ok |-> FALSE, fault |-> FALSE, segs |-> sg]}

\* The system's side of shmdt: the last detach of a marked segment reclaims it.
Unmap(sg, s) ==
  IF sg[s].st = "marked" /\ sg[s].nattch = 1
  THEN [sg EXCEPT ![s] = Gone]
  ELSE [sg EXCEPT ![s].nattch = @ - 1]

\* detach(id, ptr): shmdt, or an error that leaves the mapping.
detach(sg, s) ==
  {[ok |-> TRUE, fault |-> FALSE, segs |-> Unmap(sg, s)],
   [ok |-> FALSE, fault |-> TRUE, segs |-> sg]}

\* The system's side of shmctl(id, IPC_RMID).
Rmid(sg, s) ==
  IF sg[s].nattch = 0
  THEN [sg EXCEPT ![s] = Gone]
  ELSE [sg EXCEPT ![s].st = "marked"]

\* mark_for_deletion(id): shmctl IPC_RMID, or an error.
mark_for_deletion(sg, s) ==
  IF Exists(sg, s)
  THEN {[ok |-> TRUE, fault |-> FALSE, segs |-> Rmid(sg, s)],
        [ok |-> FALSE, fault |-> TRUE, segs |-> sg]}
  ELSE {[ok |-> FALSE, fault |-> FALSE, segs |-> sg]}

\* ----------------------------------------------------------- lock backend
NoInstance == [st |-> "unused", key |-> NoKey, held |-> FALSE]

LockOfKey(lk, k) == {l \in LockIds : lk[l].st = "named" /\ lk[l].key = k}

NextLock(lk) == {l \in LockIds : lk[l].st = "unused"
                                 /\ \A u \in LockIds : lk[u].st = "unused" => l <= u}

\* L::new(key, settings): a new instance for the key; the instance the key
\* already names, if the backend opens rather than refuses; or an error.
lock_new(lk, k) ==
  IF LockOfKey(lk, k) # {}
  THEN {[lock |-> NoLock, fault |-> FALSE, locks |-> lk]}
       \cup {[lock |-> l, fault |-> FALSE, locks |-> lk] : l \in LockOfKey(lk, k)}
  ELSE IF NextLock(lk) = {}
  THEN {[lock |-> NoLock, fault |-> FALSE, locks |-> lk]}
  ELSE {[lock |-> NoLock, fault |-> TRUE, locks |-> lk]}
       \cup { [lock |-> l, fault |-> FALSE,
               locks |-> [lk EXCEPT ![l] = [st |-> "named", key |-> k, held |-> FALSE]]]
              : l \in NextLock(lk) }

\* L::attach(key): the instance the key names, or an error when there is none.
lock_attach(lk, k) ==
  IF LockOfKey(lk, k) = {}
  THEN {[lock |-> NoLock, fault |-> FALSE, locks |-> lk]}
  ELSE {[lock |-> l, fault |-> FALSE, locks |-> lk] : l \in LockOfKey(lk, k)}

\* read_lock and write_lock: one exclusive section, entered when it is free.
lock_acquire(lk, l) ==
  {[ok |-> FALSE, fault |-> TRUE, locks |-> lk]}
  \cup (IF ~lk[l].held
        THEN {[ok |-> TRUE, fault |-> FALSE, locks |-> [lk EXCEPT ![l].held = TRUE]]}
        ELSE {})

\* release: the section is free again, or an error that leaves it held.
lock_release(lk, l) ==
  {[ok |-> TRUE, fault |-> FALSE, locks |-> [lk EXCEPT ![l].held = FALSE]],
   [ok |-> FALSE, fault |-> TRUE, locks |-> lk]}

\* The lock's own teardown, which follows Drop for Cortex: an owner destroys
\* the instance it holds, taking its name away.
lock_drop(lk, l, owner) ==
  IF owner /\ lk[l].st = "named"
  THEN [lk EXCEPT ![l].st = "unlinked"]
  ELSE lk

\* ------------------------------------------------------------ the callers
\* A caller with no handle and no call in progress.  pc is the place in the
\* call; op the call; init_key, key, id, ptr, data, counter, errno the
\* arguments and locals of the call, and key, id, ptr, lock, is_owner the
\* fields of the handle; lock_owner the owner flag inside the lock; res the
\* place the call returned from.
Idle == [pc |-> "idle", op |-> "none", init_key |-> NoKey, key |-> NoKey,
         id |-> NoId, ptr |-> NoId,
         lock |-> NoLock, lock_owner |-> FALSE, is_owner |-> FALSE,
         data |-> Full(Zero), counter |-> 0, errno |-> "none", res |-> "none"]

\* A caller holding the handle that the call of c produced or used.
Ready(c) == [Idle EXCEPT !.pc = "ready", !.key = c.key, !.id = c.id, !.ptr = c.ptr,
                         !.lock = c.lock, !.lock_owner = c.lock_owner,
                         !.is_owner = c.is_owner]

Init ==
  /\ segs = [s \in SegIds |-> Unused]
  /\ locks = [l \in LockIds |-> NoInstance]
  /\ cx = [h \in Handles |-> Idle]
  /\ latest = [s \in SegIds |-> Zero]
  /\ faults = 0

\* A fault is injected only while the run's budget lasts.
Inject(o) ==
  /\ o.fault => faults < MaxFaults
  /\ faults' = IF o.fault THEN faults + 1 ELSE faults

\* CortexError::new_clean and new_dirty, by the place that raises the error.
Clean(res) == res \in {"err_shmget", "err_shmat", "err_lookup", "err_attach_shmat"}
Dirty(res) == res \in {"err_detach", "err_rmid"}

\* The history of a segment ends with the segment.
History(lt, sg) == [s \in SegIds |-> IF Exists(sg, s) THEN lt[s] ELSE Zero]

\* The backend reclaims an instance that has lost its name once no caller
\* has it open.
Closed(lk, c) ==
  [l \in LockIds |->
     IF lk[l].st = "unlinked" /\ \A h \in Handles : c[h].lock # l
     THEN [st |-> "gone", key |-> NoKey, held |-> FALSE]
     ELSE lk[l]]

\* A variant of the while condition, for C17: the loop goes on whatever the
\* cause of the failure.
retry_continues_any_errno(counter, id, errno) ==
  counter < MaxRetries /\ id = NoId

\* Two variants of the while condition, for C3 and C5: one that lets the loop
\* turn once more, one that forgets the counter.
retry_continues_inclusive(counter, id, errno) ==
  counter <= MaxRetries /\ id = NoId /\ errno = "EEXIST"

retry_continues_unbounded(counter, id, errno) ==
  id = NoId /\ errno = "EEXIST"

\* The while condition of the retry loop.
retry_continues(counter, id, errno) ==
  counter < MaxRetries /\ id = NoId /\ errno = "EEXIST"

\* The end of new's creation stage: on to shmat with a segment, or the error.
after_shmget(c, o) ==
  IF o.id # NoId
  THEN [c EXCEPT !.pc = "n_shmat", !.id = o.id, !.errno = "none"]
  ELSE [c EXCEPT !.pc = "done", !.res = "err_shmget", !.errno = o.errno]

\* Two variants of first_attempt, for C6 and C8: one that retries whether or
\* not the caller named the key, one whose takeover maps the segment found and
\* goes on to write the caller's value into it.
first_attempt_retries(c, init_key, force_ownership, o) ==
  IF o.id = NoId /\ o.errno = "EEXIST"
  THEN IF init_key # NoKey /\ force_ownership
         THEN [c EXCEPT !.op = "takeover", !.pc = "a_lock"]
       ELSE IF retry_continues(0, o.id, o.errno)
         THEN [c EXCEPT !.pc = "n_retry", !.errno = o.errno]
       ELSE after_shmget(c, o)
  ELSE after_shmget(c, o)

first_attempt_reinit(c, init_key, force_ownership, o) ==
  IF o.id = NoId /\ o.errno = "EEXIST"
  THEN IF init_key # NoKey /\ force_ownership
         THEN [c EXCEPT !.op = "takeover", !.pc = "n_shmat",
                        !.id = CHOOSE s \in SegOfKey(o.segs, c.key) : TRUE]
       ELSE IF init_key # NoKey
         THEN after_shmget(c, o)
       ELSE IF retry_continues(0, o.id, o.errno)
         THEN [c EXCEPT !.pc = "n_retry", !.errno = o.errno]
       ELSE after_shmget(c, o)
  ELSE after_shmget(c, o)

\* What new does with the outcome o of its first creation attempt.
first_attempt(c, init_key, force_ownership, o) ==
  IF o.id = NoId /\ o.errno = "EEXIST"
  THEN IF init_key # NoKey /\ force_ownership
         THEN [c EXCEPT !.op = "takeover", !.pc = "a_lock"]
       ELSE IF init_key # NoKey
         THEN after_shmget(c, o)
       ELSE IF retry_continues(0, o.id, o.errno)
         THEN [c EXCEPT !.pc = "n_retry", !.errno = o.errno]
       ELSE after_shmget(c, o)
  ELSE after_shmget(c, o)

\* Cortex::new up to the end of its first creation attempt.
New(h) ==
  \E init_key \in Named \cup {NoKey}, force_ownership \in BOOLEAN, k \in Keys :
    /\ cx[h].pc = "idle"
    /\ init_key # NoKey => k = init_key
    /\ \E o \in shmget_excl(segs, k) :
         /\ Inject(o)
         /\ segs' = o.segs
         /\ cx' = [cx EXCEPT ![h] =
              first_attempt([cx[h] EXCEPT !.op = "new", !.init_key = init_key, !.key = k],
                            init_key, force_ownership, o)]
    /\ UNCHANGED <<locks, latest>>

\* A variant of retry_attempt, for C4: the candidate is tried but the local
\* key keeps the first one.
retry_attempt_stale_key(c, k, o) ==
  LET n == IF o.id # NoId THEN c.counter ELSE c.counter + 1
      r == [c EXCEPT !.counter = n, !.errno = o.errno]
  IN IF retry_continues(n, o.id, o.errno)
     THEN [r EXCEPT !.pc = "n_retry"]
     ELSE after_shmget(r, o)

\* What the retry loop does with the outcome o of one more candidate key k.
retry_attempt(c, k, o) ==
  LET n == IF o.id # NoId THEN c.counter ELSE c.counter + 1
      r == [c EXCEPT !.key = k, !.counter = n, !.errno = o.errno]
  IN IF retry_continues(n, o.id, o.errno)
     THEN [r EXCEPT !.pc = "n_retry"]
     ELSE after_shmget(r, o)

\* One turn of the retry loop.
NewRetry(h) ==
  \E k \in Keys :
    /\ cx[h].pc = "n_retry"
    /\ \E o \in shmget_excl(segs, k) :
         /\ Inject(o)
         /\ segs' = o.segs
         /\ cx' = [cx EXCEPT ![h] = retry_attempt(cx[h], k, o)]
    /\ UNCHANGED <<locks, latest>>

\* new when shmat has failed: mark_for_deletion(id)?, then the clean error.
shmat_failed(c, m) ==
  [c EXCEPT !.pc = "done", !.counter = 0, !.res = IF m.ok THEN "err_shmat" ELSE "err_rmid"]

\* new maps the segment it created.
NewShmat(h) ==
  /\ cx[h].pc = "n_shmat"
  /\ \E a \in shmat(segs, cx[h].id) :
       IF a.ok
       THEN /\ Inject(a)
            /\ segs' = a.segs
            /\ latest' = latest
            /\ cx' = [cx EXCEPT ![h] = [cx[h] EXCEPT !.pc = "n_write1", !.ptr = cx[h].id,
                                                     !.counter = 0]]
       ELSE \E m \in mark_for_deletion(a.segs, cx[h].id) :
            /\ Inject([fault |-> a.fault \/ m.fault])
            /\ segs' = m.segs
            /\ latest' = History(latest, m.segs)
            /\ cx' = [cx EXCEPT ![h] = shmat_failed(cx[h], m)]
  /\ UNCHANGED locks

\* ptr.write(data), first field.  The argument data of new is not looked at
\* before this line, and its value is chosen here.
NewWrite1(h) ==
  \E d \in Vals :
    /\ cx[h].pc = "n_write1"
    /\ segs' = [segs EXCEPT ![cx[h].ptr].mem[1] = Full(d)[1]]
    /\ cx' = [cx EXCEPT ![h] = [cx[h] EXCEPT !.pc = "n_write2", !.data = Full(d)]]
    /\ UNCHANGED <<locks, latest, faults>>

\* ptr.write(data), second field.
NewWrite2(h) ==
  /\ cx[h].pc = "n_write2"
  /\ segs' = [segs EXCEPT ![cx[h].ptr].mem[2] = cx[h].data[2]]
  /\ latest' = [latest EXCEPT ![cx[h].ptr] = cx[h].data[2]]
  /\ cx' = [cx EXCEPT ![h].pc = "n_lock"]
  /\ UNCHANGED <<locks, faults>>

\* A variant of new_handle, for C16: the handle of a creation is no owner.
new_handle_plain(c, o) ==
  IF o.lock = NoLock
  THEN [c EXCEPT !.pc = "done", !.res = "err_lock", !.data = Full(Zero)]
  ELSE [c EXCEPT !.pc = "done", !.res = "ok", !.lock = o.lock, !.data = Full(Zero),
                 !.lock_owner = TRUE, !.is_owner = FALSE]

\* The end of new: the error of L::new, or the handle with is_owner: true.
new_handle(c, o) ==
  IF o.lock = NoLock
  THEN [c EXCEPT !.pc = "done", !.res = "err_lock", !.data = Full(Zero)]
  ELSE [c EXCEPT !.pc = "done", !.res = "ok", !.lock = o.lock, !.data = Full(Zero),
                 !.lock_owner = TRUE, !.is_owner = TRUE]

\* L::new(key, lock_settings)? and the handle new returns.
NewLock(h) ==
  /\ cx[h].pc = "n_lock"
  /\ \E o \in lock_new(locks, cx[h].key) :
       /\ Inject(o)
       /\ locks' = o.locks
       /\ cx' = [cx EXCEPT ![h] = new_handle(cx[h], o)]
  /\ UNCHANGED <<segs, latest>>

\* The first step of Cortex::attach(key): L::attach(key)?.
attach_lock(c, o) ==
  IF o.lock = NoLock
  THEN [c EXCEPT !.pc = "done", !.res = "err_lock", !.data = Full(Zero)]
  ELSE [c EXCEPT !.pc = "a_shmget", !.lock = o.lock, !.lock_owner = FALSE,
                 !.data = Full(Zero)]

\* Cortex::attach(key), called by the user.
Attach(h) ==
  \E k \in Named :
    /\ cx[h].pc = "idle"
    /\ \E o \in lock_attach(locks, k) :
         /\ Inject(o)
         /\ locks' = o.locks
         /\ cx' = [cx EXCEPT ![h] = attach_lock([cx[h] EXCEPT !.op = "attach", !.key = k], o)]
    /\ UNCHANGED <<segs, latest>>

\* Cortex::attach(key), called by new on its takeover branch.
TakeoverAttach(h) ==
  /\ cx[h].pc = "a_lock"
  /\ \E o \in lock_attach(locks, cx[h].key) :
       /\ Inject(o)
       /\ locks' = o.locks
       /\ cx' = [cx EXCEPT ![h] = attach_lock(cx[h], o)]
  /\ UNCHANGED <<segs, latest>>

\* attach when the key names no segment, or the segment it found.
attach_lookup(c, o) ==
  IF o.id = NoId
  THEN [c EXCEPT !.pc = "done", !.res = "err_lookup", !.lock = NoLock]
  ELSE [c EXCEPT !.pc = "a_shmat", !.id = o.id]

\* attach looks the segment up by key.
AttachShmget(h) ==
  /\ cx[h].pc = "a_shmget"
  /\ \E o \in shmget_lookup(segs, cx[h].key) :
       /\ Inject(o)
       /\ segs' = o.segs
       /\ cx' = [cx EXCEPT ![h] = attach_lookup(cx[h], o)]
       /\ locks' = Closed(locks, cx')
  /\ UNCHANGED latest

\* Cortex::force_ownership: the handle and its lock both become owners.
force_ownership(c) == [c EXCEPT !.is_owner = TRUE, !.lock_owner = TRUE]

\* A variant of attached, for C7: the takeover branch returns the handle as
\* attach made it.
attached_plain(c) ==
  [c EXCEPT !.pc = "done", !.res = "ok", !.ptr = c.id, !.is_owner = FALSE]

\* The handle attach returns, and what new's takeover branch makes of it.
attached(c) ==
  LET a == [c EXCEPT !.pc = "done", !.res = "ok", !.ptr = c.id, !.is_owner = FALSE]
  IN IF c.op = "takeover" THEN force_ownership(a) ELSE a

\* attach maps the segment.
AttachShmat(h) ==
  /\ cx[h].pc = "a_shmat"
  /\ \E a \in shmat(segs, cx[h].id) :
       /\ Inject(a)
       /\ segs' = a.segs
       /\ cx' = [cx EXCEPT ![h] =
            IF a.ok
            THEN attached(cx[h])
            ELSE [cx[h] EXCEPT !.pc = "done", !.res = "err_attach_shmat",
                               !.lock = NoLock, !.id = NoId]]
       /\ locks' = Closed(locks, cx')
  /\ UNCHANGED latest

\* A variant of read_lock, for C14: the result of read_lock() is not looked at.
read_lock_unchecked(c, o) ==
  [c EXCEPT !.op = "read", !.pc = "r_read"]

\* self.lock.read_lock()? of Cortex::read.
read_lock(c, o) ==
  IF o.ok
  THEN [c EXCEPT !.op = "read", !.pc = "r_read"]
  ELSE [c EXCEPT !.op = "read", !.pc = "done", !.res = "err_lock"]

ReadLock(h) ==
  /\ cx[h].pc = "ready"
  /\ \E o \in lock_acquire(locks, cx[h].lock) :
       /\ Inject(o)
       /\ locks' = o.locks
       /\ cx' = [cx EXCEPT ![h] = read_lock(cx[h], o)]
  /\ UNCHANGED <<segs, latest>>

\* A variant of ReadCopy, for C20: read returns the copy at once and the
\* release is left out.
ReadCopy_unreleased(h) ==
  /\ cx[h].pc = "r_read"
  /\ cx' = [cx EXCEPT ![h] = [cx[h] EXCEPT !.pc = "done", !.res = "ok",
                                           !.data = segs[cx[h].ptr].mem]]
  /\ UNCHANGED <<segs, locks, latest, faults>>

\* let data = self.ptr.read().
ReadCopy(h) ==
  /\ cx[h].pc = "r_read"
  /\ cx' = [cx EXCEPT ![h] = [cx[h] EXCEPT !.pc = "r_release",
                                           !.data = segs[cx[h].ptr].mem]]
  /\ UNCHANGED <<segs, locks, latest, faults>>

\* self.lock.release()?; Ok(data).
read_release(c, o) ==
  IF o.ok
  THEN [c EXCEPT !.pc = "done", !.res = "ok"]
  ELSE [c EXCEPT !.pc = "done", !.res = "err_lock", !.data = Full(Zero)]

ReadRelease(h) ==
  /\ cx[h].pc = "r_release"
  /\ \E o \in lock_release(locks, cx[h].lock) :
       /\ Inject(o)
       /\ locks' = o.locks
       /\ cx' = [cx EXCEPT ![h] = read_release(cx[h], o)]
  /\ UNCHANGED <<segs, latest>>

\* self.lock.write_lock()? of Cortex::write.
write_lock(c, d, o) ==
  IF o.ok
  THEN [c EXCEPT !.op = "write", !.pc = "w_write1", !.data = Full(d)]
  ELSE [c EXCEPT !.op = "write", !.pc = "done", !.res = "err_lock"]

WriteLock(h) ==
  \E d \in Vals :
    /\ cx[h].pc = "ready"
    /\ \E o \in lock_acquire(locks, cx[h].lock) :
         /\ Inject(o)
         /\ locks' = o.locks
         /\ cx' = [cx EXCEPT ![h] = write_lock(cx[h], d, o)]
    /\ UNCHANGED <<segs, latest>>

\* self.ptr.write(data), first field.
WriteStore1(h) ==
  /\ cx[h].pc = "w_write1"
  /\ segs' = [segs EXCEPT ![cx[h].ptr].mem[1] = cx[h].data[1]]
  /\ cx' = [cx EXCEPT ![h].pc = "w_write2"]
  /\ UNCHANGED <<locks, latest, faults>>

\* self.ptr.write(data), second field.
WriteStore2(h) ==
  /\ cx[h].pc = "w_write2"
  /\ segs' = [segs EXCEPT ![cx[h].ptr].mem[2] = cx[h].data[2]]
  /\ cx' = [cx EXCEPT ![h].pc = "w_release"]
  /\ UNCHANGED <<locks, latest, faults>>

\* self.lock.release()?; Ok(()).
write_release(c, o) ==
  [c EXCEPT !.pc = "done", !.data = Full(Zero), !.res = IF o.ok THEN "ok" ELSE "err_lock"]

WriteRelease(h) ==
  /\ cx[h].pc = "w_release"
  /\ \E o \in lock_release(locks, cx[h].lock) :
       /\ Inject(o)
       /\ locks' = o.locks
       /\ latest' = IF o.ok THEN [latest EXCEPT ![cx[h].ptr] = cx[h].data[2]] ELSE latest
       /\ cx' = [cx EXCEPT ![h] = write_release(cx[h], o)]
  /\ UNCHANGED segs

\* A variant of drop, for C15: a failed detach ends the teardown.
drop_detach_first(sg, c) ==
  UNION { { [segs |-> m.segs,
             fault |-> d.fault \/ m.fault,
             detached |-> d.ok, asked |-> c.is_owner /\ d.ok, seen |-> sg[c.id].st,
             removed |-> m.ok]
            : m \in IF ~c.is_owner \/ ~d.ok
                    THEN {[ok |-> FALSE, fault |-> FALSE, segs |-> d.segs]}
                    ELSE mark_for_deletion(d.segs, c.id) }
          : d \in detach(sg, c.ptr) }

\* A variant of drop, for C9: removal is asked whoever drops.
drop_unconditional(sg, c) ==
  UNION { { [segs |-> m.segs,
             fault |-> d.fault \/ m.fault,
             detached |-> d.ok, asked |-> TRUE, seen |-> sg[c.id].st,
             removed |-> m.ok]
            : m \in mark_for_deletion(d.segs, c.id) }
          : d \in detach(sg, c.ptr) }

\* What Drop for Cortex asks of the system: detach always, mark_for_deletion
\* when is_owner.  seen is the state of the segment as the drop found it:
\* marked when its removal had been asked before.
drop(sg, c) ==
  UNION { { [segs |-> m.segs,
             fault |-> d.fault \/ m.fault,
             detached |-> d.ok, asked |-> c.is_owner, seen |-> sg[c.id].st,
             removed |-> m.ok]
            : m \in IF ~c.is_owner
                    THEN {[ok |-> FALSE, fault |-> FALSE, segs |-> d.segs]}
                    ELSE mark_for_deletion(d.segs, c.id) }
          : d \in detach(sg, c.ptr) }

\* Drop for Cortex.
Drop(h) ==
  /\ cx[h].pc = "ready"
  /\ \E o \in drop(segs, cx[h]) :
       /\ Inject(o)
       /\ segs' = o.segs
       /\ latest' = History(latest, o.segs)
       /\ cx' = [cx EXCEPT ![h] =
            [cx[h] EXCEPT !.pc = "d_lock", !.op = "drop", !.ptr = NoId,
                          !.res = IF ~o.asked THEN "detach_only"
                                  ELSE IF o.seen = "marked" THEN "asked_again"
                                  ELSE "asked"]]
  /\ UNCHANGED locks

\* The lock field is dropped after Drop for Cortex has run.
DropLock(h) ==
  /\ cx[h].pc = "d_lock"
  /\ cx' = [cx EXCEPT ![h] = Idle]
  /\ locks' = Closed(lock_drop(locks, cx[h].lock, cx[h].lock_owner), cx')
  /\ UNCHANGED <<segs, latest, faults>>

\* The caller dies: the system unmaps what it had mapped; nothing of Drop runs
\* and a lock it held stays held.
Crash(h) ==
  /\ cx[h].pc # "idle"
  /\ faults < MaxFaults
  /\ faults' = faults + 1
  /\ segs' = IF cx[h].ptr # NoId THEN Unmap(segs, cx[h].ptr) ELSE segs
  /\ latest' = History(latest, segs')
  /\ cx' = [cx EXCEPT ![h] = Idle]
  /\ locks' = Closed(locks, cx')

\* The caller takes the result of a call: a handle to use, or nothing.
Return(h) ==
  /\ cx[h].pc = "done"
  /\ cx' = [cx EXCEPT ![h] =
       IF cx[h].op \in {"read", "write"} \/ cx[h].res = "ok"
       THEN Ready(cx[h])
       ELSE Idle]
  /\ UNCHANGED <<segs, locks, latest, faults>>

Next ==
  \E h \in Handles :
    \/ New(h)
    \/ NewRetry(h)
    \/ NewShmat(h)
    \/ NewWrite1(h)
    \/ NewWrite2(h)
    \/ NewLock(h)
    \/ Attach(h)
    \/ TakeoverAttach(h)
    \/ AttachShmget(h)
    \/ AttachShmat(h)
    \/ ReadLock(h)
    \/ ReadCopy(h)
    \/ ReadRelease(h)
    \/ WriteLock(h)
    \/ WriteStore1(h)
    \/ WriteStore2(h)
    \/ WriteRelease(h)
    \/ Drop(h)
    \/ DropLock(h)
    \/ Crash(h)
    \/ Return(h)

Spec == Init /\ [][Next]_vars

\* -------------------------------------------------------------- properties
\* The step is one of caller h.
Step(h) == cx'[h] # cx[h]

\* Caller h is between the lock and the release of a read or a write, at the
\* memory access.
InAccess(h) == cx[h].pc \in {"r_read", "w_write1", "w_write2"}

\* C1 -- no torn reads: every read that returns a value returns one written
\* value (or the value given to new) in its entirety, never a mixture of the
\* fields of two; and at most one handle is at the memory access of read or
\* write on a segment at any time.
C1_NoTornRead ==
  /\ \A h \in Handles :
       cx[h].op = "read" /\ cx[h].pc = "done" /\ cx[h].res = "ok"
         => \E v \in Vals : cx[h].data = Full(v)
  /\ \A g, h \in Handles :
       g # h /\ InAccess(g) /\ InAccess(h) => cx[g].ptr # cx[h].ptr

\* C2 -- a read returns the latest write: what a read copies out of its
\* segment is the value of the last write completed on that segment, or the
\* value given to new when no write has completed.
C2_ReadLatest ==
  [][\A h \in Handles :
       cx[h].pc = "r_read" /\ cx'[h].pc = "r_release"
         => /\ latest[cx[h].ptr] \in Vals
            /\ cx'[h].data = Full(latest[cx[h].ptr])]_vars

\* C3, as the claim words it -- once the first 20 candidate keys have collided
\* the call tries no further candidate.  A caller at the head of the loop has
\* seen counter + 1 candidates collide and is about to try one more.
C3_TwentyCandidates ==
  \A h \in Handles : cx[h].pc = "n_retry" => cx[h].counter + 1 < MaxRetries

\* C3, amended -- the candidates are the first one and MaxRetries more: the
\* call tries another only while fewer than MaxRetries + 1 have collided, and
\* when all of them have collided it fails, with no segment created by it and
\* none mapped.
C3_RetryBound ==
  /\ [](\A h \in Handles :
          /\ cx[h].pc = "n_retry" => cx[h].counter + 1 < MaxRetries + 1
          /\ cx[h].counter = MaxRetries
               => /\ cx[h].pc = "done" /\ cx[h].res = "err_shmget"
                  /\ cx[h].id = NoId /\ cx[h].ptr = NoId /\ cx[h].lock = NoLock)
  /\ [][\A h \in Handles :
          Step(h) /\ cx'[h].op = "new" /\ cx'[h].id = NoId
            => segs' = segs /\ locks' = locks]_vars

C3_Exhausted ==
  \E h \in Handles :
    /\ cx[h].pc = "done" /\ cx[h].op = "new" /\ cx[h].res = "err_shmget"
    /\ cx[h].init_key = NoKey
    /\ cx[h].counter = MaxRetries /\ cx[h].errno = "EEXIST"

\* C4 -- the winning key: the retry loop stops at the first candidate whose
\* exclusive creation succeeds; the segment was created by that attempt under
\* that candidate; from then on the call keeps key and segment, goes on to
\* success unless shmat or L::new fails, and the handle it returns has its
\* key, its segment and its lock all keyed to that candidate.
C4_WinningKey ==
  /\ [](\A h \in Handles :
          /\ cx[h].pc = "n_retry" => cx[h].id = NoId
          /\ cx[h].op = "new" /\ Exists(segs, cx[h].id)
               => segs[cx[h].id].key = cx[h].key
          /\ cx[h].op = "new" /\ cx[h].pc = "done" /\ cx[h].res = "ok"
               => /\ cx[h].ptr = cx[h].id /\ Exists(segs, cx[h].ptr)
                  /\ segs[cx[h].ptr].key = cx[h].key
                  /\ cx[h].lock # NoLock /\ locks[cx[h].lock].key = cx[h].key
          /\ cx[h].pc = "ready"
               => /\ segs[cx[h].ptr].key = cx[h].key
                  /\ locks[cx[h].lock].key = cx[h].key)
  /\ [][\A h \in Handles :
          Step(h) =>
            /\ cx[h].pc = "n_retry" /\ cx'[h].id # NoId
                 => /\ segs[cx'[h].id].st = "unused"
                    /\ segs'[cx'[h].id].st = "live"
                    /\ segs'[cx'[h].id].key = cx'[h].key
                    /\ cx'[h].pc = "n_shmat"
                    /\ cx'[h].counter = cx[h].counter
            /\ cx[h].op = "new" /\ cx[h].id # NoId /\ cx'[h].pc # "idle"
                 => /\ cx'[h].key = cx[h].key /\ cx'[h].id = cx[h].id
                    /\ cx'[h].pc # "n_retry"
            /\ cx[h].pc = "n_shmat" /\ faults' = faults /\ Exists(segs, cx[h].id)
                 => cx'[h].pc = "n_write1"
            /\ cx[h].pc = "n_lock" /\ faults' = faults
               /\ LockOfKey(locks, cx[h].key) = {} /\ NextLock(locks) # {}
                 => cx'[h].pc = "done" /\ cx'[h].res = "ok"]_vars

\* The 20th candidate has just won: 19 have collided, counter stands at 18.
C4_TwentiethWins ==
  \E h \in Handles :
    /\ cx[h].pc = "n_shmat" /\ cx[h].op = "new" /\ cx[h].init_key = NoKey
    /\ cx[h].counter = MaxRetries - 2
    /\ Exists(segs, cx[h].id) /\ segs[cx[h].id].key = cx[h].key

\* C5 -- new always terminates: every turn of the retry loop that stays in
\* the loop counts one up, the loop is left before the count passes
\* MaxRetries, so that the creation attempts of a call number at most
\* MaxRetries + 1; and a call whose every candidate collided ends with the
\* error.
C5_BoundedAttempts ==
  [][\A h \in Handles :
       Step(h) /\ cx[h].pc = "n_retry" =>
         /\ cx[h].counter < MaxRetries
         /\ cx'[h].pc = "n_retry"
              => /\ cx'[h].counter = cx[h].counter + 1
                 /\ cx'[h].counter < MaxRetries
         /\ cx'[h].pc \in {"n_retry", "n_shmat", "done", "idle"}
         /\ cx'[h].pc = "done"
              => cx'[h].res = "err_shmget" /\ cx'[h].counter <= MaxRetries
         /\ cx'[h].pc # "idle" /\ cx'[h].errno = "EEXIST"
            /\ cx[h].counter = MaxRetries - 1
              => cx'[h].pc = "done" /\ cx'[h].res = "err_shmget"]_vars

\* Every key is taken and a call has given up after its last candidate.
C5_KeySpaceExhausted ==
  /\ \A k \in Keys : SegOfKey(segs, k) # {}
  /\ \E h \in Handles :
       /\ cx[h].pc = "done" /\ cx[h].res = "err_shmget"
       /\ cx[h].counter = MaxRetries

\* C6 -- a named key that is taken, without force: new makes its one creation
\* attempt and returns the error; it never enters the retry loop; the segments
\* (their existence, keys, attachments and content), the locks and the other
\* callers' handles, ownership flags included, are as before the call.
C6_ExplicitCollision ==
  /\ [](\A h \in Handles :
          cx[h].op = "new" /\ cx[h].init_key # NoKey
            => /\ cx[h].pc # "n_retry" /\ cx[h].counter = 0
               /\ cx[h].key = cx[h].init_key)
  /\ [][\A h \in Handles :
          /\ cx[h].pc = "idle" /\ cx'[h].op = "new"
          /\ cx'[h].init_key # NoKey /\ SegOfKey(segs, cx'[h].init_key) # {}
          => /\ cx'[h].pc = "done" /\ cx'[h].res = "err_shmget"
             /\ cx'[h].errno = "EEXIST"
             /\ cx'[h].id = NoId /\ cx'[h].ptr = NoId /\ cx'[h].lock = NoLock
             /\ segs' = segs /\ locks' = locks /\ latest' = latest
             /\ \A g \in Handles \ {h} : cx'[g] = cx[g]]_vars

\* The call has failed on a key whose segment another caller holds as owner.
C6_Refused ==
  \E h \in Handles, g \in Handles :
    /\ g # h
    /\ cx[h].pc = "done" /\ cx[h].op = "new" /\ cx[h].init_key # NoKey
    /\ cx[h].res = "err_shmget" /\ cx[h].errno = "EEXIST"
    /\ cx[g].pc = "ready" /\ cx[g].is_owner /\ cx[g].key = cx[h].key
    /\ segs[cx[g].ptr].st = "live" /\ segs[cx[g].ptr].mem \in {Full(v) : v \in Vals}

C8_TakeoverPreserves ==
  [][\A h \in Handles :
       Step(h) /\ cx'[h].pc # "idle" =>
         /\ cx[h].op = "takeover" \/ cx'[h].op = "takeover"
              => \A s \in SegIds : segs'[s].mem = segs[s].mem
         /\ \A s \in SegIds :
              Exists(segs, s) /\ Exists(segs', s) /\ segs'[s].mem # segs[s].mem
                => /\ cx[h].ptr = s
                   /\ \/ cx[h].pc \in {"w_write1", "w_write2"}
                      \/ cx[h].pc \in {"n_write1", "n_write2"}
                         /\ cx[h].op = "new"]_vars

\* A takeover has returned, and the segment holds the value it was given
\* before.
C8_ContentKept ==
  \E h \in Handles :
    /\ cx[h].op = "takeover" /\ cx[h].pc = "done" /\ cx[h].res = "ok"
    /\ latest[cx[h].ptr] \in Vals
    /\ segs[cx[h].ptr].mem = Full(latest[cx[h].ptr])

C10_SingleRemover ==
  /\ \A g, h \in Handles :
       g # h /\ cx[g].ptr # NoId /\ cx[g].ptr = cx[h].ptr
         => ~(cx[g].is_owner /\ cx[h].is_owner)
  /\ \A h \in Handles : cx[h].op = "drop" => cx[h].res # "asked_again"

\* C11 -- dirty classification: when new has created its segment and shmat
\* then fails, the error the call returns is a dirty one.
C11_DirtyAfterCreation ==
  \A h \in Handles :
    cx[h].op = "new" /\ cx[h].pc = "done" /\ cx[h].id # NoId /\ cx[h].ptr = NoId
      => Dirty(cx[h].res)

\* C12 -- the original error survives a failed cleanup: when shmat fails in
\* new after the creation, the error the call returns is the error of shmat,
\* also when mark_for_deletion has failed.
C12_OriginalErrorKept ==
  \A h \in Handles :
    cx[h].op = "new" /\ cx[h].pc = "done" /\ cx[h].id # NoId /\ cx[h].ptr = NoId
      => cx[h].res = "err_shmat"

\* C13 -- release on every exit path: when new returns an error after it has
\* created its segment, and no cleanup call has failed, the segment is mapped
\* by the caller no more and is live no more.
C13_ReleasedOnError ==
  \A h \in Handles :
    /\ cx[h].op = "new" /\ cx[h].pc = "done" /\ cx[h].id # NoId
    /\ cx[h].res \in {"err_shmat", "err_lock"}
    => cx[h].ptr = NoId /\ segs[cx[h].id].st # "live"


\* Caller h is between the lock and the release of a read or a write.
InSection(h) ==
  cx[h].pc \in {"r_read", "r_release", "w_write1", "w_write2", "w_release"}

\* Lock l is held and no caller is in its section: the holder has died, or
\* its release has failed.
Orphaned(l) ==
  locks[l].held /\ \A h \in Handles : InSection(h) => cx[h].lock # l

C15_TeardownSteps ==
  [][\A h \in Handles :
       Step(h) /\ cx[h].pc = "ready" /\ cx'[h].op = "drop" =>
         LET s == cx[h].ptr IN
         /\ cx'[h].pc = "d_lock" /\ cx'[h].ptr = NoId
         /\ cx'[h].res \in {"asked", "asked_again"} <=> cx[h].is_owner
         /\ cx'[h].res = "detach_only" <=> ~cx[h].is_owner
         /\ \/ segs'[s].st = "gone"
            \/ segs'[s].nattch = segs[s].nattch - 1
            \/ segs'[s].nattch = segs[s].nattch /\ faults' = faults + 1
         /\ cx[h].is_owner /\ faults' = faults => segs'[s].st \in {"marked", "gone"}
         /\ \A u \in SegIds \ {s} : segs'[u] = segs[u]
         /\ locks' = locks]_vars

\* An owner has been dropped; its detach failed and the removal was asked all
\* the same: the segment is marked and still counts the mapping.
C15_RemovedUndetached ==
  \E h \in Handles :
    /\ cx[h].pc = "d_lock" /\ cx[h].is_owner /\ cx[h].res = "asked"
    /\ segs[cx[h].id].st = "marked" /\ segs[cx[h].id].nattch = 1
    /\ faults = 1
    /\ \A g \in Handles \ {h} : cx[g].pc = "idle"


\* C16 -- the ownership flag: a handle returned by new, creation or takeover,
\* has is_owner true and one returned by attach has it false; over the life of
\* a handle the flag goes from false to true only, and only in the takeover by
\* force_ownership, which sets the owner flag of the lock with it; read, write
\* and their return leave the flag, the lock's flag and the key as they are.
C16_OwnerFlag ==
  /\ [](\A h \in Handles :
          /\ cx[h].pc = "done" /\ cx[h].res = "ok" /\ cx[h].op \in {"new", "takeover"}
               => cx[h].is_owner /\ cx[h].lock_owner
          /\ cx[h].pc = "done" /\ cx[h].res = "ok" /\ cx[h].op = "attach"
               => ~cx[h].is_owner /\ ~cx[h].lock_owner
          /\ cx[h].pc \in {"idle", "n_retry", "n_shmat", "n_write1", "n_write2",
                           "n_lock", "a_lock", "a_shmget", "a_shmat"}
               => ~cx[h].is_owner)
  /\ [][\A h \in Handles :
          Step(h) /\ cx'[h].pc # "idle" =>
            /\ cx[h].is_owner => cx'[h].is_owner
            /\ ~cx[h].is_owner /\ cx'[h].is_owner
                 => /\ \/ cx[h].pc = "n_lock" /\ cx[h].op = "new"
                       \/ cx[h].pc = "a_shmat" /\ cx[h].op = "takeover"
                    /\ cx'[h].pc = "done" /\ cx'[h].res = "ok"
                    /\ cx'[h].lock_owner
            /\ cx[h].pc \in {"ready", "r_read", "r_release", "w_write1", "w_write2",
                             "w_release", "done", "d_lock"}
                 => /\ cx'[h].is_owner = cx[h].is_owner
                    /\ cx'[h].lock_owner = cx[h].lock_owner
                    /\ cx'[h].key = cx[h].key]_vars

\* A handle made by attach has written, next to the owner of the segment, and
\* is no owner still.
C16_AttachedWrote ==
  \E h \in Handles, g \in Handles :
    /\ g # h
    /\ cx[h].pc = "done" /\ cx[h].op = "write" /\ cx[h].res = "ok" /\ ~cx[h].is_owner
    /\ cx[g].pc = "ready" /\ cx[g].is_owner /\ cx[g].ptr = cx[h].ptr


\* C17 -- a creation failure that is no collision: when a creation attempt of
\* new, the first or a retry, fails with an errno other than EEXIST, the call
\* ends there with the clean shmget error; that attempt has created no
\* segment, and the call holds no segment, no mapping and no lock.  The loop
\* is entered and kept only on EEXIST.
C17_NonCollisionFailure ==
  /\ [](\A h \in Handles : cx[h].pc = "n_retry" => cx[h].errno = "EEXIST")
  /\ [][\A h \in Handles :
          /\ Step(h) /\ cx[h].pc \in {"idle", "n_retry"} /\ cx'[h].op = "new"
          /\ cx'[h].errno \notin {"none", "EEXIST"}
          => /\ cx'[h].pc = "done" /\ cx'[h].res = "err_shmget" /\ Clean(cx'[h].res)
             /\ cx'[h].id = NoId /\ cx'[h].ptr = NoId /\ cx'[h].lock = NoLock
             /\ segs' = segs /\ locks' = locks]_vars

\* A retry, not the first attempt, has failed because the system has no room
\* for a segment, and the call has ended.
C17_RetryRefused ==
  \E h \in Handles :
    /\ cx[h].pc = "done" /\ cx[h].op = "new" /\ cx[h].res = "err_shmget"
    /\ cx[h].init_key = NoKey /\ cx[h].errno = "ENOSPC"
    /\ cx[h].counter > 0 /\ cx[h].counter < MaxRetries


\* C18 -- attach never creates: attach takes the lock of the key, then looks
\* the segment up, then maps it, in that order; no step of it creates or
\* removes a segment or a lock, changes a key or the content of a segment, or
\* touches another caller's handle; a success adds one attachment to the
\* segment found; a failure leaves every segment as it was and the caller
\* with no mapping.
C18_AttachFrame ==
  [][\A h \in Handles :
       /\ Step(h) /\ cx'[h].pc # "idle"
       /\ \/ cx[h].pc = "idle" /\ cx'[h].op = "attach"
          \/ cx[h].pc \in {"a_lock", "a_shmget", "a_shmat"}
       => /\ cx[h].pc \in {"idle", "a_lock"}
               => /\ cx'[h].pc \in {"a_shmget", "done"}
                  /\ cx'[h].pc = "a_shmget" => cx'[h].lock \in LockOfKey(locks, cx'[h].key)
                  /\ cx'[h].id = NoId /\ cx'[h].ptr = NoId
                  /\ segs' = segs
          /\ cx[h].pc = "a_shmget"
               => /\ cx[h].lock # NoLock /\ cx'[h].pc \in {"a_shmat", "done"}
                  /\ cx'[h].ptr = NoId
                  /\ segs' = segs
          /\ cx[h].pc = "a_shmat"
               => /\ cx[h].lock # NoLock /\ cx[h].id # NoId /\ cx'[h].pc = "done"
                  /\ cx'[h].res = "ok"
                       => /\ cx'[h].ptr = cx[h].id
                          /\ segs' = [segs EXCEPT ![cx[h].id].nattch = @ + 1]
          /\ cx'[h].pc = "done" /\ cx'[h].res # "ok"
               => segs' = segs /\ cx'[h].ptr = NoId
          /\ \A s \in SegIds :
               /\ segs'[s].st = segs[s].st /\ segs'[s].key = segs[s].key
               /\ segs'[s].mem = segs[s].mem
          /\ latest' = latest
          /\ \A l \in LockIds :
               /\ locks[l].st = "unused" => locks'[l].st = "unused"
               /\ locks[l].st = "named" => locks'[l] = locks[l]
          /\ \A g \in Handles \ {h} : cx'[g] = cx[g]]_vars

\* An attach has found the lock of its key but no segment, and has failed,
\* while a segment with a value in it exists.
C18_LookupFailed ==
  \E h \in Handles, s \in SegIds :
    /\ cx[h].pc = "done" /\ cx[h].op = "attach" /\ cx[h].res = "err_lookup"
    /\ segs[s].st = "live" /\ segs[s].mem \in {Full(v) : v \in Vals}


\* C19 -- no read of an uninitialized segment: the value a read has copied
\* out of a segment has no field of the content the segment had before the
\* initial write of new.
C19_NoUninitializedRead ==
  \A h \in Handles :
    cx[h].pc = "r_release" => cx[h].data[1] # Zero /\ cx[h].data[2] # Zero

\* C20 -- the lock is released after every access: a caller inside a section
\* holds the lock, alone; a read or a write whose acquisition failed returns
\* the error with the memory and the lock untouched; one that acquired goes
\* through the release before it returns, and returns Ok only with the lock
\* free; so that, as long as no caller has died and no lock call has failed,
\* a lock is held exactly while a caller is inside its section.
C20_Released ==
  /\ [](\A h \in Handles :
          InSection(h) =>
            /\ locks[cx[h].lock].held
            /\ \A g \in Handles \ {h} : InSection(g) => cx[g].lock # cx[h].lock)
  /\ [](faults = 0 =>
          \A l \in LockIds :
            locks[l].held => \E h \in Handles : InSection(h) /\ cx[h].lock = l)
  /\ [][\A h \in Handles :
          Step(h) /\ cx'[h].pc # "idle" =>
            /\ cx[h].pc = "ready" /\ cx'[h].pc = "done"
                 => /\ cx'[h].op \in {"read", "write"} /\ cx'[h].res = "err_lock"
                    /\ segs' = segs /\ locks' = locks /\ latest' = latest
            /\ cx[h].pc = "r_read" => cx'[h].pc = "r_release" /\ locks' = locks
            /\ cx[h].pc = "w_write1" => cx'[h].pc = "w_write2" /\ locks' = locks
            /\ cx[h].pc = "w_write2" => cx'[h].pc = "w_release" /\ locks' = locks
            /\ cx[h].pc \in {"r_release", "w_release"}
                 => /\ cx'[h].pc = "done"
                    /\ cx'[h].res = "ok" => ~locks'[cx[h].lock].held
                    /\ cx'[h].res # "ok" => faults' = faults + 1]_vars

\* With no fault so far, a read has returned its value and the lock it went
\* through, which another handle shares, is free.
C20_ReadDone ==
  \E h \in Handles, g \in Handles :
    /\ g # h /\ faults = 0
    /\ cx[h].pc = "done" /\ cx[h].op = "read" /\ cx[h].res = "ok"
    /\ cx[g].pc = "ready" /\ cx[g].lock = cx[h].lock
    /\ ~locks[cx[h].lock].held


====
